---------------------------- MODULE Spec2Model ----------------------------
(***************************************************************************)
(* Session lifecycle and statistics aggregation of the wizhbt backend.     *)
(*                                                                         *)
(* The Express handlers are async functions: each `await prisma...` is one *)
(* database operation, and handlers of different requests interleave at    *)
(* the awaits.  A request in flight occupies a slot; one action of the     *)
(* model is one database operation together with the synchronous code that *)
(* runs when it resolves.                                                  *)
(***************************************************************************)
EXTENDS Integers, Sequences, FiniteSets, TLC

(* ------------------------------ bounds -------------------------------- *)
NumSlots == 2            \* requests that can be in flight at once
MaxRequests == 3         \* requests ever issued
MaxTicks == 1            \* clock advances

(* ------------------------- program constants -------------------------- *)
MinMinutes == 5
MaxMinutes == 240
SecondsPerMinute == 60
MsPerSecond == 1000
MsPerDay == 86400000
FOCUS_TIME == 1500                   \* 25 * 60 seconds
SHORT_BREAK == 300                   \* 5 * 60 seconds
LONG_BREAK == 900                    \* 15 * 60 seconds
SESSIONS_BEFORE_LONG_BREAK == 4

(* ------------------------------ inputs -------------------------------- *)
NULL == 0 - 1                        \* a NULL column
NoHabit == 0                         \* habitId absent from the request body
Habits == {1}                        \* rows of table Habit
Items == {1, 2, 3}                   \* ids of the checklist items of a habit
MinutesInputs == {4, 5, 241}         \* targetDuration of POST /pomodoro/start
PatchInputs == {7}                   \* duration of PATCH /pomodoro/:id
ClockSteps == {60500}                \* milliseconds the clock may advance by
TZOffsets == {0 - 3600000}           \* local time minus UTC, milliseconds
T0 == MsPerDay - 60000               \* 1970-01-01T23:59:00Z
Slots == 1..NumSlots
SessionIds == {1, 2}                 \* ids a request may name, known or not yet
NoItem == 0                          \* no checklist item: a reset, a direct call
AbsentItem == 4                      \* an id that no item of the checklist has
DirectInputs == {TRUE}               \* completed, in a body without habitId

VARIABLES
  now,          \* the clock (new Date().getTime())
  ticks,        \* number of clock advances so far
  tz,           \* time zone of the server process
  sessions,     \* table PomodoroSession: sequence indexed by id
  events,       \* table CalendarEvent: sequence in creation order
  stats,        \* table HabitStatistics: set of rows
  reqs,         \* the requests in flight, by slot
  last,         \* the response most recently sent
  issued,       \* number of requests issued so far
  succeeded,    \* session ids for which complete or cancel has answered 200
  dayChecklist, \* HabitCard state: per habit, the items checked on the selected day
  selectedDate, \* the date selected in the client
  habits,       \* table Habit: the rows by id
  outbox,       \* requests a client has sent that have not reached the server
  panel,        \* state of the PomodoroPanel component
  pomodoro      \* state of the EnhancedPomodoro component

vars == <<now, ticks, tz, sessions, events, stats, reqs, last, issued,
          succeeded, dayChecklist, selectedDate, habits, outbox, panel,
          pomodoro>>

\* the step is none of the habit table, of a client's sending, or of a timer
Quiet == UNCHANGED <<habits, outbox, panel, pomodoro>>

(* --------------------------- dates and days --------------------------- *)
\* Math.floor(a / b) for b > 0
FloorDiv(a, b) == a \div b

\* d.setUTCHours(0, 0, 0, 0)
UTCMidnight(t) == FloorDiv(t, MsPerDay) * MsPerDay

\* d.setHours(0, 0, 0, 0) in a process whose local time is UTC + off
LocalMidnight(t, off) == FloorDiv(t + off, MsPerDay) * MsPerDay - off

\* new Date(d.toISOString().split('T')[0]): the UTC day of d, at 00:00Z
DateOfISODay(t) == FloorDiv(t, MsPerDay) * MsPerDay

(* ------------------------------ tables -------------------------------- *)
\* requiredItems of the habit template
RequiredItems(h) == 2

\* a row of table Habit: the template, with the items of its checklist that
\* are stored as completed (none when the habit is created)
HabitRow(h) == [name |-> h, checklist |-> {}, requiredItems |-> RequiredItems(h)]

\* prisma.pomodoroSession.findFirst({ where: { status: "active" } })
ActiveSessions(tbl) == {i \in 1..Len(tbl) : tbl[i].status = "active"}

\* faulty variant: the upper bound of the validation is missing
ValidMinutes_NoUpperBound(m) == ~(m < MinMinutes)

\* the validation of targetDuration (minutes)
ValidMinutes(m) == ~(m < MinMinutes \/ m > MaxMinutes)

\* data of prisma.pomodoroSession.create, with the column defaults
NewSession(habitId, minutes, t) ==
  [habitId |-> habitId, start |-> t, end |-> NULL, duration |-> NULL,
   targetDuration |-> minutes * SecondsPerMinute, status |-> "active"]

\* Math.floor((endTime.getTime() - existing.start.getTime()) / 1000)
ElapsedSeconds(endTime, start) == FloorDiv(endTime - start, MsPerSecond)

\* faulty variant: the update keeps the duration counter the client reported
CompletedSession_KeepsCounter(row, endTime, duration) ==
  [row EXCEPT !.end = endTime, !.status = "completed"]

\* data of the update in POST /pomodoro/complete/:id
CompletedSession(row, endTime, duration) ==
  [row EXCEPT !.end = endTime, !.duration = duration, !.status = "completed"]

\* data of the update in POST /pomodoro/cancel/:id
CancelledSession(row, t) ==
  [row EXCEPT !.status = "cancelled", !.end = t]

\* data of the update in PATCH /pomodoro/:id
PatchedSession(row, duration) == [row EXCEPT !.duration = duration]

\* data of prisma.calendarEvent.create in POST /pomodoro/complete/:id
PomodoroEvent(habitId, endTime, duration) ==
  [habitId |-> habitId, date |-> endTime, completed |-> TRUE,
   type |-> "pomodoro", duration |-> duration]

\* data of prisma.calendarEvent.create in POST /calendar/complete
HabitEvent(habitId, date, completed) ==
  [habitId |-> habitId, date |-> UTCMidnight(date), completed |-> completed,
   type |-> "habit", duration |-> NULL]

ZeroCounters ==
  [totalPomodoros |-> 0, totalDuration |-> 0, completedHabits |-> 0,
   failedHabits |-> 0]

StatsRow(habitId, date, c) ==
  [habitId |-> habitId, date |-> date, totalPomodoros |-> c.totalPomodoros,
   totalDuration |-> c.totalDuration, completedHabits |-> c.completedHabits,
   failedHabits |-> c.failedHabits]

AddCounters(row, inc) ==
  [row EXCEPT !.totalPomodoros = @ + inc.totalPomodoros,
              !.totalDuration = @ + inc.totalDuration,
              !.completedHabits = @ + inc.completedHabits,
              !.failedHabits = @ + inc.failedHabits]

\* faulty variant: the upsert writes the create values over an existing row
Upsert_Overwrites(tbl, habitId, date, create, inc) ==
  {row \in tbl : ~(row.habitId = habitId /\ row.date = date)}
  \cup {StatsRow(habitId, date, create)}

\* prisma.habitStatistics.upsert({ where: { habitId_date }, update, create }):
\* one statement against the unique index, the update made of increments
Upsert(tbl, habitId, date, create, inc) ==
  LET hit == {row \in tbl : row.habitId = habitId /\ row.date = date}
  IN  IF hit = {}
      THEN tbl \cup {StatsRow(habitId, date, create)}
      ELSE (tbl \ hit) \cup {AddCounters(row, inc) : row \in hit}

\* faulty variant: the rollup adds whole minutes where the log keeps seconds
PomodoroCounters_Minutes(duration) ==
  [ZeroCounters EXCEPT !.totalPomodoros = 1,
                       !.totalDuration = FloorDiv(duration, SecondsPerMinute)]

\* update and create of the upsert in POST /pomodoro/complete/:id
PomodoroCounters(duration) ==
  [ZeroCounters EXCEPT !.totalPomodoros = 1, !.totalDuration = duration]

\* update and create of the upsert in POST /calendar/complete
HabitCounters(completed) ==
  [ZeroCounters EXCEPT !.completedHabits = IF completed THEN 1 ELSE 0,
                       !.failedHabits = IF completed THEN 0 ELSE 1]

(* ----------------------------- requests ------------------------------- *)
IdleReq ==
  [kind |-> "idle", pc |-> "idle", id |-> 0, habitId |-> NoHabit,
   minutes |-> 0, start |-> NULL, endTime |-> NULL, duration |-> NULL,
   date |-> NULL, completed |-> FALSE, solo |-> FALSE, wrote |-> <<>>]

NoResponse == [kind |-> "none", arg |-> 0, result |-> "none"]

Idle(r) == reqs[r].pc = "idle"
Others(r) == Slots \ {r}

\* a new request takes the first free slot
FreeSlot(r) == Idle(r) /\ \A q \in 1..(r - 1) : ~Idle(q)
CanIssue(r) == FreeSlot(r) /\ issued < MaxRequests
AloneNow(r) == \A q \in Others(r) : Idle(q)

\* request q is no longer the only one in flight once r has arrived
Joined(r, q) == IF Idle(q) THEN reqs[q] ELSE [reqs[q] EXCEPT !.solo = FALSE]

\* the handler of slot r awaits its next database call
Await(r, rec) == reqs' = [q \in Slots |-> IF q = r THEN rec ELSE reqs[q]]

\* a request arrives in slot r and awaits a further database call
Arrive(r, rec) ==
  /\ reqs' = [q \in Slots |->
                IF q = r THEN [rec EXCEPT !.solo = AloneNow(r)] ELSE Joined(r, q)]
  /\ issued' = issued + 1

\* what identifies a request in its response: the minutes of a start, the
\* habit of a habit completion, the session id of the others
ArgOf(rec) ==
  IF rec.kind = "start" THEN rec.minutes
  ELSE IF rec.kind = "habit" THEN rec.habitId
  ELSE rec.id

\* res.json / res.status(...).json of the request in slot r
Respond(r, rec, result) ==
  last' = [kind |-> rec.kind, arg |-> ArgOf(rec), result |-> result]

\* a request arrives in slot r and is answered after its first database call
Answer(r, rec, result) ==
  /\ reqs' = [q \in Slots |-> IF q = r THEN IdleReq ELSE Joined(r, q)]
  /\ issued' = issued + 1
  /\ Respond(r, rec, result)

\* the request in slot r is answered after a later database call
Finish(r, rec, result) ==
  /\ reqs' = [q \in Slots |-> IF q = r THEN IdleReq ELSE reqs[q]]
  /\ Respond(r, rec, result)

\* PomodoroPanel after its first render: useState(0), useState(false), and
\* no active session fetched
PanelMounted == [activeSession |-> 0, timer |-> 0, isRunning |-> FALSE]

\* EnhancedPomodoro after its first render (the useState initial values);
\* timeouts are the setTimeout callbacks of handleSessionComplete that have
\* not run yet, each with the currentSession and sessionCount of its closure;
\* interval is the closure that the callback of setInterval calls
PomodoroMounted ==
  [timeLeft |-> FOCUS_TIME, isRunning |-> FALSE, currentSession |-> "focus",
   sessionCount |-> 0, completedSessions |-> <<>>, duration |-> FOCUS_TIME,
   timeouts |-> <<>>,
   interval |-> [currentSession |-> "focus", sessionCount |-> 0]]

Init ==
  /\ now = T0
  /\ ticks = 0
  /\ tz \in TZOffsets
  /\ sessions = <<>>
  /\ events = <<>>
  /\ stats = {}
  /\ reqs = [r \in Slots |-> IdleReq]
  /\ last = NoResponse
  /\ issued = 0
  /\ succeeded = {}
  /\ dayChecklist = [h \in Habits |-> {}]
  /\ selectedDate = T0
  /\ habits = [h \in Habits |-> HabitRow(h)]
  /\ outbox = {}
  /\ panel = PanelMounted
  /\ pomodoro = PomodoroMounted

Tick ==
  /\ ticks < MaxTicks
  /\ \E d \in ClockSteps : now' = now + d
  /\ ticks' = ticks + 1
  /\ UNCHANGED <<tz, sessions, events, stats, reqs, last, issued, succeeded,
                 dayChecklist, selectedDate>>

(* ---------------------- POST /pomodoro/start -------------------------- *)
\* faulty variant: the handler does not look for an active session
StartOutcome_Unguarded(tbl, minutes) ==
  IF ~ValidMinutes(minutes) THEN "InvalidDuration" ELSE "ok"

\* the checks of the handler, in the order the handler makes them
StartOutcome(tbl, minutes) ==
  IF ActiveSessions(tbl) # {} THEN "SessionAlreadyActive"
  ELSE IF ~ValidMinutes(minutes) THEN "InvalidDuration"
  ELSE "ok"

StartFind(r, habitId, minutes) ==
  LET rec == [IdleReq EXCEPT !.kind = "start", !.habitId = habitId,
                             !.minutes = minutes]
      out == StartOutcome(sessions, minutes)
  IN  /\ CanIssue(r)
      /\ IF out = "ok"
         THEN /\ Arrive(r, [rec EXCEPT !.pc = "create"])
              /\ UNCHANGED last
         ELSE Answer(r, rec, out)
      /\ UNCHANGED <<now, ticks, tz, sessions, events, stats, succeeded,
                     dayChecklist, selectedDate>>

StartCreate(r) ==
  /\ reqs[r].pc = "create"
  /\ sessions' = Append(sessions,
                        NewSession(reqs[r].habitId, reqs[r].minutes, now))
  /\ Finish(r, reqs[r], "ok")
  /\ UNCHANGED <<now, ticks, tz, issued, events, stats, succeeded,
                 dayChecklist, selectedDate>>

(* ----------------------- PATCH /pomodoro/:id -------------------------- *)
\* prisma.pomodoroSession.update({ where: { id }, data: { duration } })
PatchOutcome(tbl, id) ==
  IF id \in 1..Len(tbl) THEN "ok" ELSE "RecordNotFound"

Patch(r, id, duration) ==
  LET rec == [IdleReq EXCEPT !.kind = "patch", !.id = id,
                             !.duration = duration]
      out == PatchOutcome(sessions, id)
  IN  /\ CanIssue(r)
      /\ sessions' = IF out = "ok"
                     THEN [sessions EXCEPT ![id] = PatchedSession(@, duration)]
                     ELSE sessions
      /\ Answer(r, rec, out)
      /\ UNCHANGED <<now, ticks, tz, events, stats, succeeded, dayChecklist,
                     selectedDate>>

(* ------------- POST /pomodoro/complete/:id and /cancel/:id ------------ *)
\* faulty variant: the handler does not check the status it found
LookupOutcome_IgnoresStatus(tbl, id) ==
  IF id \notin 1..Len(tbl) THEN "SessionNotFound" ELSE "ok"

\* findUnique({ where: { id } }) and the two checks that follow it
LookupOutcome(tbl, id) ==
  IF id \notin 1..Len(tbl) THEN "SessionNotFound"
  ELSE IF tbl[id].status # "active" THEN "SessionNotActive"
  ELSE "ok"

\* what a handler keeps of `existing`, with endTime = new Date()
Found(kind, pc, id, tbl, t) ==
  [IdleReq EXCEPT !.kind = kind, !.pc = pc, !.id = id,
                  !.habitId = tbl[id].habitId, !.start = tbl[id].start,
                  !.endTime = t]

CompleteFind(r, id) ==
  LET out == LookupOutcome(sessions, id)
  IN  /\ CanIssue(r)
      /\ IF out = "ok"
         THEN LET rec == Found("complete", "update", id, sessions, now)
              IN  /\ Arrive(r, [rec EXCEPT !.duration =
                                   ElapsedSeconds(rec.endTime, rec.start)])
                  /\ UNCHANGED last
         ELSE Answer(r, [IdleReq EXCEPT !.kind = "complete", !.id = id], out)
      /\ UNCHANGED <<now, ticks, tz, sessions, events, stats, succeeded,
                     dayChecklist, selectedDate>>

\* faulty variant: the event and the statistics are written for every session
HasHabit_Always(rec) == TRUE

\* if (existing.habitId) { ... }
HasHabit(rec) == rec.habitId # NoHabit

CompleteUpdate(r) ==
  LET rec == reqs[r]
  IN  /\ rec.kind = "complete" /\ rec.pc = "update"
      /\ sessions' = [sessions EXCEPT ![rec.id] =
                        CompletedSession(@, rec.endTime, rec.duration)]
      /\ IF HasHabit(rec)
         THEN /\ Await(r, [rec EXCEPT !.pc = "event"])
              /\ UNCHANGED <<last, succeeded>>
         ELSE /\ Finish(r, rec, "ok")
              /\ succeeded' = succeeded \cup {rec.id}
      /\ UNCHANGED <<now, ticks, tz, issued, events, stats, dayChecklist,
                     selectedDate>>

\* the counters of HabitStatistics(habitId, date), zeros when there is no row
CountersOf(tbl, habitId, date) ==
  LET hit == {row \in tbl : row.habitId = habitId /\ row.date = date}
  IN  IF hit = {} THEN ZeroCounters
      ELSE LET row == CHOOSE x \in hit : TRUE
           IN  [totalPomodoros |-> row.totalPomodoros,
                totalDuration |-> row.totalDuration,
                completedHabits |-> row.completedHabits,
                failedHabits |-> row.failedHabits]

\* the rows a step appended to a table
Appended(old, new) == SubSeq(new, Len(old) + 1, Len(new))

CompleteEvent(r) ==
  LET rec == reqs[r]
  IN  /\ rec.kind = "complete" /\ rec.pc = "event"
      /\ events' = Append(events,
                          PomodoroEvent(rec.habitId, rec.endTime, rec.duration))
      /\ Await(r, [rec EXCEPT !.pc = "upsert",
                              !.wrote = @ \o Appended(events, events')])
      /\ UNCHANGED <<now, ticks, tz, issued, sessions, stats, last, succeeded,
                     dayChecklist, selectedDate>>

CompleteUpsert(r) ==
  LET rec == reqs[r]
      dateKey == LocalMidnight(rec.endTime, tz)
  IN  /\ rec.kind = "complete" /\ rec.pc = "upsert"
      /\ stats' = Upsert(stats, rec.habitId, dateKey,
                         PomodoroCounters(rec.duration),
                         PomodoroCounters(rec.duration))
      /\ Finish(r, rec, "ok")
      /\ succeeded' = succeeded \cup {rec.id}
      /\ UNCHANGED <<now, ticks, tz, issued, sessions, events, dayChecklist,
                     selectedDate>>

CancelFind(r, id) ==
  LET out == LookupOutcome(sessions, id)
  IN  /\ CanIssue(r)
      /\ IF out = "ok"
         THEN /\ Arrive(r, Found("cancel", "update", id, sessions, now))
              /\ UNCHANGED last
         ELSE Answer(r, [IdleReq EXCEPT !.kind = "cancel", !.id = id], out)
      /\ UNCHANGED <<now, ticks, tz, sessions, events, stats, succeeded,
                     dayChecklist, selectedDate>>

\* faulty variant: a cancel is counted as a pomodoro of its habit
CancelUpdate_Counts(r) ==
  LET rec == reqs[r]
  IN  /\ rec.kind = "cancel" /\ rec.pc = "update"
      /\ sessions' = [sessions EXCEPT ![rec.id] =
                        CancelledSession(@, rec.endTime)]
      /\ stats' = Upsert(stats, rec.habitId, LocalMidnight(rec.endTime, tz),
                         PomodoroCounters(0), PomodoroCounters(0))
      /\ Finish(r, rec, "ok")
      /\ succeeded' = succeeded \cup {rec.id}
      /\ UNCHANGED <<now, ticks, tz, issued, events, dayChecklist, selectedDate>>

CancelUpdate(r) ==
  LET rec == reqs[r]
  IN  /\ rec.kind = "cancel" /\ rec.pc = "update"
      /\ sessions' = [sessions EXCEPT ![rec.id] =
                        CancelledSession(@, rec.endTime)]
      /\ Finish(r, rec, "ok")
      /\ succeeded' = succeeded \cup {rec.id}
      /\ UNCHANGED <<now, ticks, tz, issued, events, stats, dayChecklist,
                     selectedDate>>

(* ------------- HabitCard and POST /calendar/complete ------------------ *)
\* faulty variant: a checked item stays checked
ToggledChecklist_OnlyChecks(checked, itemId) == checked \cup ({itemId} \cap Items)

\* dayChecklist.map(item => item.id === itemId ? {...item, completed: !item.completed} : item)
ToggledChecklist(checked, itemId) ==
  IF itemId \in checked THEN checked \ {itemId}
  ELSE checked \cup ({itemId} \cap Items)

\* faulty variant: the threshold must be exceeded
IsComplete_Strict(checked, h) == Cardinality(checked) > RequiredItems(h)

\* updatedChecklist.filter(item => item.completed).length >= habit.requiredItems
IsComplete(checked, h) == Cardinality(checked) >= RequiredItems(h)

\* fetch('/calendar/complete', { method: 'POST', body: { habitId, date, completed } })
\* the request keeps the id of the item whose toggle sent it
PostComplete(r, h, itemId, completed) ==
  Arrive(r, [IdleReq EXCEPT !.kind = "habit", !.pc = "event", !.habitId = h,
                            !.id = itemId,
                            !.date = DateOfISODay(selectedDate),
                            !.completed = completed])

toggleChecklistItem(r, h, itemId) ==
  LET updatedChecklist == ToggledChecklist(dayChecklist[h], itemId)
  IN  /\ CanIssue(r)
      /\ dayChecklist' = [dayChecklist EXCEPT ![h] = updatedChecklist]
      /\ PostComplete(r, h, itemId, IsComplete(updatedChecklist, h))
      /\ UNCHANGED <<now, ticks, tz, sessions, events, stats, last, succeeded,
                     selectedDate>>

resetHabit(r, h) ==
  /\ CanIssue(r)
  /\ dayChecklist' = [dayChecklist EXCEPT ![h] = {}]
  /\ PostComplete(r, h, NoItem, FALSE)
  /\ UNCHANGED <<now, ticks, tz, sessions, events, stats, last, succeeded,
                 selectedDate>>

\* POST /calendar/complete sent by an API client, its body without a habitId
CalendarComplete(r, completed) ==
  /\ CanIssue(r)
  /\ PostComplete(r, NoHabit, NoItem, completed)
  /\ UNCHANGED <<now, ticks, tz, sessions, events, stats, last, succeeded,
                 dayChecklist, selectedDate>>

HabitEventCreate(r) ==
  LET rec == reqs[r]
  IN  /\ rec.kind = "habit" /\ rec.pc = "event"
      /\ events' = Append(events, HabitEvent(rec.habitId, rec.date, rec.completed))
      /\ Await(r, [rec EXCEPT !.pc = "upsert",
                              !.wrote = @ \o Appended(events, events')])
      /\ UNCHANGED <<now, ticks, tz, issued, sessions, stats, last, succeeded,
                     dayChecklist, selectedDate>>

\* habitId: Number(habitId) is NaN when the body has no habitId: the upsert
\* throws, and so does the handler (column habitId is NOT NULL)
UpsertOutcome(habitId) == IF habitId = NoHabit THEN "UpsertFailed" ELSE "ok"

HabitUpsert(r) ==
  LET rec == reqs[r]
      targetDate == UTCMidnight(rec.date)
      out == UpsertOutcome(rec.habitId)
  IN  /\ rec.kind = "habit" /\ rec.pc = "upsert"
      /\ stats' = IF out = "ok"
                  THEN Upsert(stats, rec.habitId, targetDate,
                              HabitCounters(rec.completed),
                              HabitCounters(rec.completed))
                  ELSE stats
      /\ Finish(r, rec, out)
      /\ UNCHANGED <<now, ticks, tz, issued, sessions, events, succeeded,
                     dayChecklist, selectedDate>>

Next ==
  \/ Tick /\ Quiet
  \/ \E r \in Slots :
       \/ \E h \in Habits \cup {NoHabit}, m \in MinutesInputs :
            StartFind(r, h, m) /\ Quiet
       \/ StartCreate(r) /\ Quiet
       \/ \E id \in SessionIds, d \in PatchInputs : Patch(r, id, d) /\ Quiet
       \/ \E id \in SessionIds : CompleteFind(r, id) /\ Quiet
       \/ CompleteUpdate(r) /\ Quiet
       \/ CompleteEvent(r) /\ Quiet
       \/ CompleteUpsert(r) /\ Quiet
       \/ \E id \in SessionIds : CancelFind(r, id) /\ Quiet
       \/ CancelUpdate(r) /\ Quiet
       \/ \E h \in Habits, itemId \in Items :
            toggleChecklistItem(r, h, itemId) /\ Quiet
       \/ \E h \in Habits : resetHabit(r, h) /\ Quiet
       \/ \E c \in DirectInputs : CalendarComplete(r, c) /\ Quiet
       \/ HabitEventCreate(r) /\ Quiet
       \/ HabitUpsert(r) /\ Quiet

Spec == Init /\ [][Next]_vars
(* ----------------------------- checklist ----------------------------- *)
(* The HabitCard of a day whose checklist state (perDayChecklist) may be   *)
(* any, with the requests its toggles and resets send.                     *)
ChecklistInit ==
  /\ now = T0
  /\ ticks = 0
  /\ tz \in TZOffsets
  /\ sessions = <<>>
  /\ events = <<>>
  /\ stats = {}
  /\ reqs = [r \in Slots |-> IdleReq]
  /\ last = NoResponse
  /\ issued = 0
  /\ succeeded = {}
  /\ dayChecklist \in [Habits -> SUBSET Items]
  /\ selectedDate = T0
  /\ habits = [h \in Habits |-> HabitRow(h)]
  /\ outbox = {}
  /\ panel = PanelMounted
  /\ pomodoro = PomodoroMounted

ChecklistNext ==
  \E r \in Slots :
    \/ \E h \in Habits, itemId \in Items \cup {AbsentItem} :
         toggleChecklistItem(r, h, itemId) /\ Quiet
    \/ \E h \in Habits : resetHabit(r, h) /\ Quiet
    \/ HabitEventCreate(r) /\ Quiet
    \/ HabitUpsert(r) /\ Quiet

ChecklistSpec == ChecklistInit /\ [][ChecklistNext]_vars

(* ------------------------------- views -------------------------------- *)
(* The read side: GET /calendar, /calendar/date/:date, /calendar/stats,   *)
(* /calendar/habit/:habitId and the streak of the dashboard.  They change *)
(* no table; each is applied to an event log drawn from a bounded set,    *)
(* with the statistics and sessions that writing this log has produced.   *)
(* Here the instants count from 00:00Z of the 16th of a month of 31 days, *)
(* so that the whole month lies within the 32-bit integers of TLC.        *)
MaxLog == 3                          \* events in the log

WeekBack == 6                        \* for (let i = 6; i >= 0; i--)
MonthFirst == 0 - 15                 \* the 1st of the month, as a day number
MonthLast == 15                      \* the 31st of the month, as a day number
ViewHabits == {1, 2}                 \* rows of table Habit
ViewDays == {13, 14, 15}             \* the days that habit events are about
ViewTZOffsets == {0 - 3600000, 0, 3600000}
ViewNow == MonthLast * MsPerDay + 43200000             \* the 31st, 12:00Z
PomodoroInstants == {MonthLast * MsPerDay + 21600000}  \* the 31st, 06:00Z
DateInputs == {MonthLast}            \* date of GET /calendar/date/:date
WeekInputs == {1}                    \* habitId of GET /calendar/habit/:habitId
RangeInputs == {<<14, 15>>}          \* startDate, endDate of GET /calendar/stats

\* d.toISOString().split('T')[0], as a day number
ISODay(t) == FloorDiv(t, MsPerDay)

\* new Date("YYYY-MM-DD"): 00:00Z of the day
DateOfDay(day) == day * MsPerDay

\* the events a log may hold
LogEvents ==
  {HabitEvent(h, DateOfDay(d), c) : h \in ViewHabits, d \in ViewDays, c \in BOOLEAN}
  \cup {PomodoroEvent(1, t, SecondsPerMinute) : t \in PomodoroInstants}

Logs == UNION {[1..n -> LogEvents] : n \in 0..MaxLog}

\* the statistics that the handlers have written along with the log
RECURSIVE StatsOfLog(_, _)
StatsOfLog(log, off) ==
  IF log = <<>> THEN {}
  ELSE LET e == log[Len(log)]
           before == StatsOfLog(SubSeq(log, 1, Len(log) - 1), off)
       IN  IF e.type = "habit"
           THEN Upsert(before, e.habitId, UTCMidnight(e.date),
                       HabitCounters(e.completed), HabitCounters(e.completed))
           ELSE Upsert(before, e.habitId, LocalMidnight(e.date, off),
                       PomodoroCounters(e.duration), PomodoroCounters(e.duration))

\* the sessions whose completion has written the pomodoro events of the log
SessionsOfLog(log) ==
  LET IsPomodoro(e) == e.type = "pomodoro"
      pom == SelectSeq(log, IsPomodoro)
  IN  [i \in 1..Len(pom) |->
         CompletedSession(
           NewSession(pom[i].habitId, MinMinutes,
                      pom[i].date - pom[i].duration * MsPerSecond),
           pom[i].date, pom[i].duration)]

ViewInit ==
  /\ now = ViewNow
  /\ ticks = 0
  /\ tz \in ViewTZOffsets
  /\ events \in Logs
  /\ stats = StatsOfLog(events, tz)
  /\ sessions = SessionsOfLog(events)
  /\ reqs = [r \in Slots |-> IdleReq]
  /\ last = NoResponse
  /\ issued = 0
  /\ succeeded = {}
  /\ dayChecklist = [h \in Habits |-> {}]
  /\ selectedDate = ViewNow
  /\ habits = [h \in ViewHabits |-> HabitRow(h)]
  /\ outbox = {}
  /\ panel = PanelMounted
  /\ pomodoro = PomodoroMounted

\* where: { date: { gte: a, lte: b } }
InRange(t, a, b) == a <= t /\ t <= b

\* the ids of a set of events in the order of orderBy: { date: 'asc' }; events
\* of equal date come in the order of their ids
OrderByDate(ids) ==
  LET Before(j, i) ==
        events[j].date < events[i].date \/ (events[j].date = events[i].date /\ j < i)
      Rank(i) == Cardinality({j \in ids : Before(j, i)}) + 1
  IN  [k \in 1..Cardinality(ids) |-> CHOOSE i \in ids : Rank(i) = k]

\* res.json of a view
Shown(kind, arg, result) == [kind |-> kind, arg |-> arg, result |-> result]

\* a view changes no table and no state of the client
ReadOnly ==
  UNCHANGED <<now, ticks, tz, sessions, events, stats, reqs, issued,
              succeeded, dayChecklist, selectedDate>>

(* ------------------------ GET /calendar (month) ----------------------- *)
\* new Date(currentYear, currentMonth - 1, 1): local midnight of the first day
MonthStartDate(off) == DateOfDay(MonthFirst) - off

\* new Date(currentYear, currentMonth, 0): local midnight of the last day
MonthEndDate(off) == DateOfDay(MonthLast) - off

\* the ids of the events of the month, as findMany returns them
MonthEvents ==
  OrderByDate({i \in 1..Len(events) :
                 InRange(events[i].date, MonthStartDate(tz), MonthEndDate(tz))})

MonthStatistics ==
  {row \in stats : InRange(row.date, MonthStartDate(tz), MonthEndDate(tz))}

GetMonth ==
  /\ last' = Shown("month", <<MonthFirst, MonthLast>>,
                   [events |-> MonthEvents, statistics |-> MonthStatistics])
  /\ ReadOnly

(* ------------------------- GET /calendar/stats ------------------------ *)
RangeEvents(startDay, endDay, h) ==
  LET ids == {i \in 1..Len(events) :
                /\ InRange(events[i].date, DateOfDay(startDay), DateOfDay(endDay))
                /\ (h # NoHabit => events[i].habitId = h)}
  IN  [k \in 1..Cardinality(ids) |->
         CHOOSE i \in ids : Cardinality({j \in ids : j < i}) + 1 = k]

RangeStatistics(startDay, endDay, h) ==
  {row \in stats :
     /\ InRange(row.date, DateOfDay(startDay), DateOfDay(endDay))
     /\ (h # NoHabit => row.habitId = h)}

GetStats(startDay, endDay, h) ==
  /\ last' = Shown("stats", <<startDay, endDay, h>>,
                   [events |-> RangeEvents(startDay, endDay, h),
                    statistics |-> RangeStatistics(startDay, endDay, h)])
  /\ ReadOnly

(* ---------------------- GET /calendar/date/:date ---------------------- *)
\* habitsForDay: for each habit, habitEvents.some(e => !!e.completed)
HabitsForDay(day) ==
  LET startOfDay == UTCMidnight(DateOfDay(day))
      endOfDay == startOfDay + MsPerDay - 1
      habitEvents(h) ==
        {i \in 1..Len(events) :
           /\ InRange(events[i].date, startOfDay, endOfDay)
           /\ events[i].habitId = h /\ events[i].type = "habit"}
  IN  [h \in ViewHabits |-> \E i \in habitEvents(h) : events[i].completed]

GetDate(day) ==
  /\ last' = Shown("date", day, HabitsForDay(day))
  /\ ReadOnly

(* --------------------- GET /calendar/habit/:habitId ------------------- *)
\* the entry of the day i days before today
WeekEntry(h, today, i) ==
  LET d == today - i * MsPerDay
      startOfDay == LocalMidnight(d, tz)
      endOfDay == startOfDay + MsPerDay - 1
      found == {j \in 1..Len(events) :
                  /\ events[j].habitId = h
                  /\ InRange(events[j].date, startOfDay, endOfDay)
                  /\ events[j].type = "habit"}
      \* findFirst without orderBy: the row of least id
      event == CHOOSE j \in found : \A k \in found : j <= k
  IN  [date |-> ISODay(d),
       status |-> IF found = {} THEN "none"
                  ELSE IF events[event].completed THEN "complete"
                  ELSE "incomplete"]

HabitWeek(h) ==
  LET today == LocalMidnight(now, tz)
  IN  [k \in 1..(WeekBack + 1) |-> WeekEntry(h, today, WeekBack + 1 - k)]

GetHabitWeek(h) ==
  /\ last' = Shown("week", h, HabitWeek(h))
  /\ ReadOnly

(* ------------------------ Dashboard: getStreak ------------------------ *)
\* the habit events of calendarData.eventsByDate[dateStr], calendarData
\* being the month that was fetched (a sequence of event ids)
HabitEventsOfDate(calendarData, dateStr) ==
  LET OfDate(i) == ISODay(events[i].date) = dateStr /\ events[i].type = "habit"
  IN  SelectSeq(calendarData, OfDate)

\* habitMap, by habit id: events.forEach(e => { if (e.habitId) habitMap[e.habitId] = e; })
HabitMap(evs) ==
  LET ids == {events[evs[k]].habitId : k \in 1..Len(evs)} \ {NoHabit}
      LastOf(h) == CHOOSE k \in 1..Len(evs) :
                     /\ events[evs[k]].habitId = h
                     /\ \A m \in 1..Len(evs) : events[evs[m]].habitId = h => m <= k
  IN  [h \in ids |-> events[evs[LastOf(h)]]]

\* the loop of getStreak, from the day that begins at local midnight d
RECURSIVE StreakFrom(_, _)
StreakFrom(calendarData, d) ==
  LET habitMap == HabitMap(HabitEventsOfDate(calendarData, ISODay(d)))
  IN  IF DOMAIN habitMap = {} THEN 0
      ELSE IF \A h \in DOMAIN habitMap : habitMap[h].completed
           THEN 1 + StreakFrom(calendarData, d - MsPerDay)
           ELSE 0

\* faulty variant: the walk starts at yesterday
getStreak_FromYesterday(calendarData, today) ==
  StreakFrom(calendarData, today - MsPerDay)

getStreak(calendarData, today) == StreakFrom(calendarData, today)

GetStreak ==
  /\ last' = Shown("streak", ISODay(LocalMidnight(now, tz)),
                   getStreak(MonthEvents, LocalMidnight(now, tz)))
  /\ ReadOnly

ViewNext ==
  \/ GetMonth /\ Quiet
  \/ \E range \in RangeInputs, h \in {NoHabit, 1} :
       GetStats(range[1], range[2], h) /\ Quiet
  \/ \E day \in DateInputs : GetDate(day) /\ Quiet
  \/ \E h \in WeekInputs : GetHabitWeek(h) /\ Quiet
  \/ GetStreak /\ Quiet

ViewSpec == ViewInit /\ [][ViewNext]_vars

(* ---------------- Dashboard: the selected day, read back -------------- *)
\* the checklist of a CalendarEvent row: prisma.calendarEvent.create is
\* given none, so a row holds none
EventChecklist(e) == NULL

\* habitsForDay[h].checklist of GET /calendar/date/:date: that of
\* habitEvents[habitEvents.length - 1], null without habit events
ChecklistsForDay(day) ==
  LET startOfDay == UTCMidnight(DateOfDay(day))
      endOfDay == startOfDay + MsPerDay - 1
      habitEvents(h) ==
        {i \in 1..Len(events) :
           /\ InRange(events[i].date, startOfDay, endOfDay)
           /\ events[i].habitId = h /\ events[i].type = "habit"}
      latestEvent(h) == CHOOSE i \in habitEvents(h) : \A j \in habitEvents(h) : j <= i
  IN  [h \in DOMAIN habits |->
         IF habitEvents(h) = {} THEN NULL
         ELSE EventChecklist(events[latestEvent(h)])]

\* the dayChecklist of a HabitCard: perDayChecklist if it is an array, else a
\* copy of the template with every item unchecked
CardChecklist(perDayChecklist) ==
  IF perDayChecklist # NULL THEN perDayChecklist ELSE {}

\* fetchDayData of the Dashboard: the checklists of the selected day, as the
\* cards take them
FetchDayData ==
  LET day == ISODay(selectedDate)
      data == ChecklistsForDay(day)
  IN  /\ last' = Shown("day", day, [h \in DOMAIN habits |-> CardChecklist(data[h])])
      /\ ReadOnly
      /\ Quiet

DayNext ==
  \/ FetchDayData
  \/ \E r \in Slots :
       \/ \E h \in Habits, itemId \in Items :
            toggleChecklistItem(r, h, itemId) /\ Quiet
       \/ \E h \in Habits : resetHabit(r, h) /\ Quiet
       \/ HabitEventCreate(r) /\ Quiet
       \/ HabitUpsert(r) /\ Quiet

DaySpec == Init /\ [][DayNext]_vars

(* ------------- the HabitCard that keeps its state in the habit -------- *)
(* The other HabitCard of the repository shows habit.checklist itself and  *)
(* sends every change of it to PATCH /habits/:id.  Its requests are sent   *)
(* at the click and reach the server later, in any order.  The card is     *)
(* taken to show the checklist that the server holds.                      *)
\* a request on its way to the server
Message(kind, id, habitId) ==
  [kind |-> kind, id |-> id, habitId |-> habitId, duration |-> NULL,
   date |-> NULL, completed |-> FALSE, checklist |-> {}, by |-> "user",
   seq |-> 0]

\* updateHabitMutation.mutate({ checklist }), which onUpdateHabit sends as well
PatchHabitMessage(h, checklist) ==
  [Message("habitpatch", h, h) EXCEPT !.checklist = checklist]

\* fetch('/calendar/complete', { body: { habitId, date: today, completed } })
CompleteMessage(h, itemId, today, completed) ==
  [Message("habit", itemId, h) EXCEPT !.date = today, !.completed = completed]

\* the requests sent and not answered are kept within the bound
CanSend(n) == issued + Cardinality(outbox) + n <= MaxRequests

\* toggleChecklistItem of that card
toggleTemplateItem(h, itemId) ==
  LET updatedChecklist == ToggledChecklist(habits[h].checklist, itemId)
      today == DateOfISODay(now)
  IN  /\ h \in DOMAIN habits
      /\ CanSend(2)
      /\ outbox' = outbox \cup
                     {PatchHabitMessage(h, updatedChecklist),
                      CompleteMessage(h, itemId, today,
                                      IsComplete(updatedChecklist, h))}
      /\ UNCHANGED <<now, ticks, tz, sessions, events, stats, reqs, last,
                     issued, succeeded, dayChecklist, selectedDate, habits,
                     panel, pomodoro>>

\* resetHabit of that card
resetTemplate(h) ==
  /\ h \in DOMAIN habits
  /\ CanSend(2)
  /\ outbox' = outbox \cup
                 {PatchHabitMessage(h, {}),
                  CompleteMessage(h, NoItem, DateOfISODay(now), FALSE)}
  /\ UNCHANGED <<now, ticks, tz, sessions, events, stats, reqs, last, issued,
                 succeeded, dayChecklist, selectedDate, habits, panel,
                 pomodoro>>

\* prisma.habit.update({ where: { id }, data: { ..., checklist, ... } })
UpdateOutcome(tbl, id) == IF id \in DOMAIN tbl THEN "ok" ELSE "RecordNotFound"

\* data of the update: the fields that the body leaves undefined are kept
UpdatedHabit(row, checklist) == [row EXCEPT !.checklist = checklist]

\* PATCH /habits/:id
UpdateHabit(r, msg) ==
  LET out == UpdateOutcome(habits, msg.habitId)
  IN  /\ msg \in outbox /\ msg.kind = "habitpatch"
      /\ CanIssue(r)
      /\ habits' = IF out = "ok"
                   THEN [habits EXCEPT ![msg.habitId] =
                           UpdatedHabit(@, msg.checklist)]
                   ELSE habits
      /\ Answer(r, [IdleReq EXCEPT !.kind = "habitpatch", !.id = msg.id,
                                   !.habitId = msg.habitId], out)
      /\ outbox' = outbox \ {msg}
      /\ UNCHANGED <<now, ticks, tz, sessions, events, stats, succeeded,
                     dayChecklist, selectedDate, panel, pomodoro>>

\* POST /calendar/complete, from its arrival to its first database call
CalendarArrive(r, msg) ==
  /\ msg \in outbox /\ msg.kind = "habit"
  /\ CanIssue(r)
  /\ Arrive(r, [IdleReq EXCEPT !.kind = "habit", !.pc = "event",
                               !.habitId = msg.habitId, !.id = msg.id,
                               !.date = msg.date, !.completed = msg.completed])
  /\ outbox' = outbox \ {msg}
  /\ UNCHANGED <<now, ticks, tz, sessions, events, stats, last, succeeded,
                 dayChecklist, selectedDate, habits, panel, pomodoro>>

CardNext ==
  \/ \E h \in Habits, itemId \in Items : toggleTemplateItem(h, itemId)
  \/ \E h \in Habits : resetTemplate(h)
  \/ \E r \in Slots :
       \/ \E msg \in outbox : UpdateHabit(r, msg)
       \/ \E msg \in outbox : CalendarArrive(r, msg)
       \/ \E h \in Habits, itemId \in Items :
            toggleChecklistItem(r, h, itemId) /\ Quiet
       \/ \E h \in Habits : resetHabit(r, h) /\ Quiet
       \/ HabitEventCreate(r) /\ Quiet
       \/ HabitUpsert(r) /\ Quiet

CardSpec == Init /\ [][CardNext]_vars

(* ---------------------- PomodoroPanel: the countdown ------------------ *)
(* The panel with a session that is active and near its end: it was        *)
(* started with 5 minutes, and its duration counter holds the seconds that *)
(* earlier ticks have reported.  The requests of the panel are sent at a   *)
(* tick or a click and reach the server later, in any order; a response is *)
(* received when the handler sends it.                                     *)
DefaultMinutes == 25                 \* useState<number>(25)
ProgressEvery == 10                  \* if (elapsed % 10 === 0)
ProgressInputs == {280, 290}         \* the duration counter of the session

\* a request of the panel; seq tells the requests of one session apart
PanelMessage(kind, id, duration, by) ==
  [Message(kind, id, NoHabit) EXCEPT !.duration = duration, !.by = by,
                                     !.seq = issued + Cardinality(outbox) + 1]

\* GET /pomodoro/active: findFirst({ where: { status: "active" } }), the row
\* of least id, null (here 0) without one
ActiveSession(tbl) ==
  IF ActiveSessions(tbl) = {} THEN 0
  ELSE CHOOSE i \in ActiveSessions(tbl) : \A j \in ActiveSessions(tbl) : i <= j

\* Math.max(total - elapsed, 0), elapsed = activeSession.duration || 0
Remaining(row) ==
  LET total == row.targetDuration
      elapsed == IF row.duration = NULL THEN 0 ELSE row.duration
  IN  IF total - elapsed > 0 THEN total - elapsed ELSE 0

\* the first timer effect, which runs when activeSession?.id has changed
Synced(p, tbl, id) ==
  IF id # 0
  THEN [p EXCEPT !.activeSession = id, !.timer = Remaining(tbl[id]),
                 !.isRunning = TRUE]
  ELSE [p EXCEPT !.activeSession = 0, !.isRunning = FALSE,
                 !.timer = DefaultMinutes * SecondsPerMinute]

TimerInit ==
  /\ now = T0
  /\ ticks = 0
  /\ tz \in TZOffsets
  /\ \E h \in Habits \cup {NoHabit}, d \in ProgressInputs :
       sessions = <<PatchedSession(
                      NewSession(h, MinMinutes, T0 - d * MsPerSecond), d)>>
  /\ events = <<>>
  /\ stats = {}
  /\ reqs = [r \in Slots |-> IdleReq]
  /\ last = NoResponse
  /\ issued = 0
  /\ succeeded = {}
  /\ dayChecklist = [h \in Habits |-> {}]
  /\ selectedDate = T0
  /\ habits = [h \in Habits |-> HabitRow(h)]
  /\ outbox = {}
  /\ panel = Synced(PanelMounted, sessions, ActiveSession(sessions))
  /\ pomodoro = PomodoroMounted

\* refetchActive, refetchInterval: the panel fetches the active session
RefetchActive ==
  LET id == ActiveSession(sessions)
  IN  /\ panel' = IF id # panel.activeSession
                  THEN Synced(panel, sessions, id)
                  ELSE panel
      /\ UNCHANGED <<now, ticks, tz, sessions, events, stats, reqs, last,
                     issued, succeeded, dayChecklist, selectedDate, habits,
                     outbox, pomodoro>>

\* faulty variant: at zero the callback sends nothing
TickMessages_NoComplete(prev, id, total) ==
  IF prev <= 1 THEN {}
  ELSE IF (total - (prev - 1)) % ProgressEvery = 0
       THEN {PanelMessage("patch", id, total - (prev - 1), "timer")}
       ELSE {}

\* the requests that the callback of setInterval sends
TickMessages(prev, id, total) ==
  IF prev <= 1 THEN {PanelMessage("complete", id, NULL, "timer")}
  ELSE IF (total - (prev - 1)) % ProgressEvery = 0
       THEN {PanelMessage("patch", id, total - (prev - 1), "timer")}
       ELSE {}

\* the callback of setInterval, which runs while isRunning && activeSession
TimerTick ==
  LET prev == panel.timer
      id == panel.activeSession
      sent == TickMessages(prev, id, sessions[id].targetDuration)
  IN  /\ panel.isRunning /\ id # 0
      /\ CanSend(Cardinality(sent))
      /\ panel' = [panel EXCEPT !.timer = IF prev <= 1 THEN 0 ELSE prev - 1]
      /\ outbox' = outbox \cup sent
      /\ UNCHANGED <<now, ticks, tz, sessions, events, stats, reqs, last,
                     issued, succeeded, dayChecklist, selectedDate, habits,
                     pomodoro>>

\* mutation.isPending of a button: a request of its kind is not answered yet
IsPending(kind) ==
  \/ \E msg \in outbox : msg.kind = kind
  \/ \E r \in Slots : reqs[r].kind = kind

\* a click on Cancel or on Complete: mutation.mutate(activeSession.id)
Click(kind) ==
  /\ panel.activeSession # 0
  /\ ~IsPending(kind)
  /\ CanSend(1)
  /\ outbox' = outbox \cup {PanelMessage(kind, panel.activeSession, NULL, "user")}
  /\ UNCHANGED <<now, ticks, tz, sessions, events, stats, reqs, last, issued,
                 succeeded, dayChecklist, selectedDate, habits, panel,
                 pomodoro>>

\* onSuccess of completeMutation and cancelMutation: setIsRunning(false)
OnResponse(p, answered, response) ==
  IF answered /\ response.kind \in {"complete", "cancel"}
     /\ response.result = "ok"
  THEN [p EXCEPT !.isRunning = FALSE]
  ELSE p

\* what a step of the server on slot r means to the panel
Served(r) ==
  /\ panel' = OnResponse(panel, reqs'[r].pc = "idle", last')
  /\ UNCHANGED <<habits, pomodoro>>

\* the request msg reaches its handler
Deliver(r, msg) ==
  /\ CASE msg.kind = "patch" -> Patch(r, msg.id, msg.duration)
        [] msg.kind = "complete" -> CompleteFind(r, msg.id)
        [] msg.kind = "cancel" -> CancelFind(r, msg.id)
        [] OTHER -> FALSE
  /\ outbox' = outbox \ {msg}
  /\ Served(r)

TimerNext ==
  \/ RefetchActive
  \/ TimerTick
  \/ \E kind \in {"cancel", "complete"} : Click(kind)
  \/ \E r \in Slots :
       \/ \E msg \in outbox : Deliver(r, msg)
       \/ CompleteUpdate(r) /\ UNCHANGED outbox /\ Served(r)
       \/ CompleteEvent(r) /\ UNCHANGED outbox /\ Served(r)
       \/ CompleteUpsert(r) /\ UNCHANGED outbox /\ Served(r)
       \/ CancelUpdate(r) /\ UNCHANGED outbox /\ Served(r)

TimerSpec == TimerInit /\ [][TimerNext]_vars

\* a step of the server: the arrival of a request or the next database call
\* of a handler
ServerStep ==
  \E r \in Slots :
    \/ \E msg \in outbox : Deliver(r, msg)
    \/ CompleteUpdate(r) /\ UNCHANGED outbox /\ Served(r)
    \/ CompleteEvent(r) /\ UNCHANGED outbox /\ Served(r)
    \/ CompleteUpsert(r) /\ UNCHANGED outbox /\ Served(r)
    \/ CancelUpdate(r) /\ UNCHANGED outbox /\ Served(r)

\* setInterval keeps calling back, the network delivers, the handlers run on
FairTimerSpec ==
  /\ TimerInit /\ [][TimerNext]_vars
  /\ WF_vars(TimerTick)
  /\ WF_vars(ServerStep)

(* ------------------- EnhancedPomodoro: the local timer ---------------- *)
(* The component holds its state in React; a handler or a timer callback   *)
(* and the effects that run after it are one step.  The interval has a     *)
(* period of one second and the timeout of a completion a delay of two, so *)
(* a pending timeout runs before the third callback of the interval after  *)
(* it was set.                                                             *)
MaxCompleted == 8                    \* entries of completedSessions
forestMin == 5                       \* minutes
AdvanceDelay == 2                    \* setTimeout(..., 2000), in seconds
DurationInputs == {forestMin * SecondsPerMinute, FOCUS_TIME}

getSessionDuration(session) ==
  CASE session = "focus" -> FOCUS_TIME
    [] session = "short-break" -> SHORT_BREAK
    [] session = "long-break" -> LONG_BREAK
    [] OTHER -> FOCUS_TIME

\* faulty variant: the count without the session that has completed
NextSession_CountBefore(sessionCount) ==
  IF sessionCount % SESSIONS_BEFORE_LONG_BREAK = 0
  THEN "long-break" ELSE "short-break"

\* the session after a focus session, from the sessionCount of the closure
NextSession(sessionCount) ==
  IF (sessionCount + 1) % SESSIONS_BEFORE_LONG_BREAK = 0
  THEN "long-break" ELSE "short-break"

\* handleSessionComplete as a render has defined it: useCallback over
\* currentSession and sessionCount
Closure(p) ==
  [currentSession |-> p.currentSession, sessionCount |-> p.sessionCount]

\* the effects after an update from p to q: the timer effect sets a new
\* interval, with the handleSessionComplete of q, when isRunning or timeLeft
\* has changed; the second effect sets timeLeft to duration when duration or
\* isRunning has changed and the timer does not run
Rendered(p, q) ==
  LET synced == IF (q.duration # p.duration \/ q.isRunning # p.isRunning)
                   /\ ~q.isRunning
                THEN [q EXCEPT !.timeLeft = q.duration]
                ELSE q
  IN  IF synced.isRunning # p.isRunning \/ synced.timeLeft # p.timeLeft
      THEN [synced EXCEPT !.interval = Closure(synced)]
      ELSE synced

FocusInit ==
  /\ now = T0
  /\ ticks = 0
  /\ tz \in TZOffsets
  /\ sessions = <<>>
  /\ events = <<>>
  /\ stats = {}
  /\ reqs = [r \in Slots |-> IdleReq]
  /\ last = NoResponse
  /\ issued = 0
  /\ succeeded = {}
  /\ dayChecklist = [h \in Habits |-> {}]
  /\ selectedDate = T0
  /\ habits = [h \in Habits |-> HabitRow(h)]
  /\ outbox = {}
  /\ panel = PanelMounted
  /\ pomodoro = PomodoroMounted

\* a step of the component leaves the server and the other components alone
Local ==
  UNCHANGED <<now, ticks, tz, sessions, events, stats, reqs, last, issued,
              succeeded, dayChecklist, selectedDate, habits, outbox, panel>>

startTimer ==
  /\ ~pomodoro.isRunning
  /\ pomodoro' = Rendered(pomodoro, [pomodoro EXCEPT !.isRunning = TRUE])
  /\ Local

pauseTimer ==
  /\ pomodoro.isRunning
  /\ pomodoro' = Rendered(pomodoro, [pomodoro EXCEPT !.isRunning = FALSE])
  /\ Local

resetTimer ==
  /\ pomodoro' =
       Rendered(pomodoro,
                [pomodoro EXCEPT !.isRunning = FALSE,
                   !.timeLeft = getSessionDuration(pomodoro.currentSession)])
  /\ Local

\* the circular slider, which takes input while the timer does not run
setDuration(v) ==
  /\ ~pomodoro.isRunning
  /\ v # pomodoro.duration
  /\ pomodoro' = Rendered(pomodoro, [pomodoro EXCEPT !.duration = v])
  /\ Local

\* handleSessionComplete of closure c, on state p
Completed(p, c) ==
  [p EXCEPT !.isRunning = FALSE,
            !.completedSessions = Append(@, c.currentSession),
            !.timeouts = Append(@, [closure |-> c, age |-> 0])]

\* the callback of setInterval, which exists while isRunning && timeLeft > 0;
\* a second has passed for the pending timeouts
IntervalTick ==
  LET p == [pomodoro EXCEPT
              !.timeouts = [i \in DOMAIN @ |-> [@[i] EXCEPT !.age = @ + 1]]]
      prev == pomodoro.timeLeft
  IN  /\ pomodoro.isRunning /\ prev > 0
      /\ \A i \in DOMAIN pomodoro.timeouts :
           pomodoro.timeouts[i].age < AdvanceDelay
      /\ IF prev <= 1
         THEN /\ Len(pomodoro.completedSessions) < MaxCompleted
              /\ pomodoro' =
                   Rendered(pomodoro,
                            [Completed(p, pomodoro.interval)
                               EXCEPT !.timeLeft = 0])
         ELSE pomodoro' = Rendered(pomodoro, [p EXCEPT !.timeLeft = prev - 1])
      /\ Local

\* the callback of setTimeout in handleSessionComplete
Advance ==
  LET c == Head(pomodoro.timeouts).closure
      rest == [pomodoro EXCEPT !.timeouts = Tail(@)]
  IN  /\ pomodoro.timeouts # <<>>
      /\ pomodoro' =
           Rendered(pomodoro,
             IF c.currentSession = "focus"
             THEN [rest EXCEPT
                     !.currentSession = NextSession(c.sessionCount),
                     !.timeLeft =
                        getSessionDuration(NextSession(c.sessionCount)),
                     !.sessionCount = @ + 1]
             ELSE [rest EXCEPT !.currentSession = "focus",
                               !.timeLeft = FOCUS_TIME])
      /\ Local

FocusNext ==
  \/ startTimer
  \/ pauseTimer
  \/ resetTimer
  \/ \E v \in DurationInputs : setDuration(v)
  \/ IntervalTick
  \/ Advance

FocusSpec == FocusInit /\ [][FocusNext]_vars

(* ------------------------- DELETE /habits/:id ------------------------- *)
(* The habit table with the rows that refer to it.  The tables are those   *)
(* that writing a drawn event log has produced, with or without a session *)
(* that has been started for a habit and is still active.                  *)
ActiveExtras ==
  {<<>>} \cup {<<NewSession(h, MinMinutes, ViewNow)>> : h \in ViewHabits}

HabitInit ==
  /\ now = ViewNow
  /\ ticks = 0
  /\ tz \in TZOffsets
  /\ events \in Logs
  /\ stats = StatsOfLog(events, tz)
  /\ sessions \in {SessionsOfLog(events) \o extra : extra \in ActiveExtras}
  /\ reqs = [r \in Slots |-> IdleReq]
  /\ last = NoResponse
  /\ issued = 0
  /\ succeeded = {}
  /\ dayChecklist = [h \in Habits |-> {}]
  /\ selectedDate = ViewNow
  /\ habits = [h \in ViewHabits |-> HabitRow(h)]
  /\ outbox = {}
  /\ panel = PanelMounted
  /\ pomodoro = PomodoroMounted

\* prisma.habit.delete({ where: { id } }) under the foreign keys of the
\* schema: HabitStatistics.habitId is ON DELETE RESTRICT
DeleteOutcome(tbl, statistics, id) ==
  IF id \notin DOMAIN tbl THEN "RecordNotFound"
  ELSE IF \E row \in statistics : row.habitId = id THEN "ForeignKeyViolation"
  ELSE "ok"

\* ON DELETE SET NULL, of PomodoroSession.habitId and CalendarEvent.habitId
SetNull(tbl, id) ==
  [i \in 1..Len(tbl) |->
     IF tbl[i].habitId = id THEN [tbl[i] EXCEPT !.habitId = NoHabit] ELSE tbl[i]]

DeleteHabit(id) ==
  LET out == DeleteOutcome(habits, stats, id)
  IN  /\ habits' = IF out = "ok"
                   THEN [h \in DOMAIN habits \ {id} |-> habits[h]]
                   ELSE habits
      /\ sessions' = IF out = "ok" THEN SetNull(sessions, id) ELSE sessions
      /\ events' = IF out = "ok" THEN SetNull(events, id) ELSE events
      /\ last' = Shown("delete", id, out)
      /\ UNCHANGED <<now, ticks, tz, stats, reqs, issued, succeeded,
                     dayChecklist, selectedDate, outbox, panel, pomodoro>>

HabitNext == \E id \in ViewHabits : DeleteHabit(id)

HabitSpec == HabitInit /\ [][HabitNext]_vars

(* ------------------------- steps of requests -------------------------- *)
\* this step answered a request that arrived in it (one database call)
AnsweredNow ==
  /\ issued' = issued + 1
  /\ \A r \in Slots : Idle(r) => reqs'[r].pc = "idle"

\* this step moved the request of slot r: it arrived, went on, or was answered
Moved(r) == reqs'[r].pc # reqs[r].pc

\* the kinds of the requests this step belongs to
StepKinds ==
  {IF Idle(r) THEN reqs'[r].kind ELSE reqs[r].kind : r \in {q \in Slots : Moved(q)}}
  \cup (IF AnsweredNow THEN {last'.kind} ELSE {})

NoSlotBusy == \A r \in Slots : Idle(r)

(* ------------------------------- C1 ----------------------------------- *)
\* C1: in every reachable state at most one session has status = active,
\* whatever the interleaving of concurrent start, complete and cancel requests.
C1_AtMostOneActive == Cardinality(ActiveSessions(sessions)) <= 1

(* ------------------------------- C2 ----------------------------------- *)
\* C2: a start with targetMinutes in [5,240] that is handled with no other
\* request in flight fails with SessionAlreadyActive and creates no session
\* when some session is active, and otherwise succeeds, creating one active
\* session.
C2_SoloStart ==
  [][ /\ (AnsweredNow /\ NoSlotBusy /\ last'.kind = "start"
            /\ last'.arg >= MinMinutes /\ last'.arg <= MaxMinutes)
         => /\ ActiveSessions(sessions) # {}
            /\ last'.result = "SessionAlreadyActive"
            /\ sessions' = sessions
      /\ \A r \in Slots :
           (reqs[r].kind = "start" /\ reqs'[r].pc = "idle" /\ reqs[r].solo
              /\ reqs[r].minutes >= MinMinutes /\ reqs[r].minutes <= MaxMinutes)
           => /\ ActiveSessions(sessions) = {}
              /\ last'.result = "ok"
              /\ Len(sessions') = Len(sessions) + 1
              /\ SubSeq(sessions', 1, Len(sessions)) = sessions
              /\ sessions'[Len(sessions')].status = "active"
              /\ ActiveSessions(sessions') = {Len(sessions')}
    ]_vars

\* a start has succeeded alone, and a second start with valid minutes, also
\* alone, has been refused because of it
C2_Witness ==
  /\ issued = 2 /\ NoSlotBusy
  /\ Len(sessions) = 1 /\ sessions[1].status = "active"
  /\ last = [kind |-> "start", arg |-> MinMinutes, result |-> "SessionAlreadyActive"]

(* ------------------------------- C3 ----------------------------------- *)
\* C3 as stated: a start with targetMinutes outside [5,240] fails with
\* InvalidDuration in every state, whether or not a session is active.
C3_AlwaysInvalidDuration ==
  (last.kind = "start" /\ (last.arg < MinMinutes \/ last.arg > MaxMinutes))
  => last.result = "InvalidDuration"

\* C3 amended: a start with targetMinutes outside [5,240] always fails and
\* creates no session; it fails with InvalidDuration when no session is active
\* at its lookup, and with SessionAlreadyActive when one is.
C3_InvalidMinutesRefused ==
  [][ /\ (AnsweredNow /\ last'.kind = "start"
            /\ (last'.arg < MinMinutes \/ last'.arg > MaxMinutes))
         => /\ sessions' = sessions
            /\ last'.result = IF ActiveSessions(sessions) # {}
                              THEN "SessionAlreadyActive"
                              ELSE "InvalidDuration"
      /\ \A r \in Slots :
           reqs'[r].kind = "start"
           => (reqs'[r].minutes >= MinMinutes /\ reqs'[r].minutes <= MaxMinutes)
    ]_vars

\* start(241) has been refused while a session was active
C3_Witness ==
  /\ last.kind = "start" /\ last.arg > MaxMinutes
  /\ last.result = "SessionAlreadyActive"
  /\ ActiveSessions(sessions) # {}

(* ------------------------------- C4 ----------------------------------- *)
\* C4: once complete(id) or cancel(id) has succeeded, every later complete(id)
\* or cancel(id) fails with SessionNotActive and leaves the session table, the
\* event log and the statistics unchanged.
C4_TerminalStaysTerminal ==
  [][ \A id \in succeeded :
        /\ (AnsweredNow /\ last'.kind \in {"complete", "cancel"} /\ last'.arg = id)
           => /\ last'.result = "SessionNotActive"
              /\ sessions' = sessions /\ events' = events /\ stats' = stats
        /\ \A r \in Slots :
             ~(Idle(r) /\ reqs'[r].kind \in {"complete", "cancel"}
                 /\ reqs'[r].id = id)
    ]_vars

\* a complete or cancel has been refused on a session that one had ended
C4_Witness ==
  /\ last.kind \in {"complete", "cancel"}
  /\ last.result = "SessionNotActive"
  /\ last.arg \in succeeded
  /\ sessions[last.arg].status \in {"completed", "cancelled"}

(* ------------------------------- C5 ----------------------------------- *)
\* C5: recordProgress on a session that does not exist, or that is completed
\* or cancelled, is rejected and leaves every stored duration unchanged.
C5_LateProgressRejected ==
  [][ (AnsweredNow /\ last'.kind = "patch")
      => IF last'.arg \in 1..Len(sessions)
            /\ sessions[last'.arg].status = "active"
         THEN last'.result = "ok"
         ELSE last'.result # "ok" /\ sessions' = sessions
    ]_vars

(* ------------------------------- C6 ----------------------------------- *)
\* d is the local midnight that begins the calendar day of instant t
IsLocalDayOf(d, t) ==
  /\ (d + tz) % MsPerDay = 0
  /\ d <= t /\ t < d + MsPerDay

\* C6: a successful complete on a session with a habit reference appends
\* exactly one pomodoro event, with the computed duration, for that habit at
\* the instant of end, and adds exactly 1 to totalPomodoros and the computed
\* duration to totalDuration of the one row HabitStatistics(habit, day of end);
\* on a session without a habit reference it appends no event and changes no
\* statistics row.
C6_CompleteSideEffects ==
  [][ \A r \in Slots :
        (reqs[r].kind = "complete" /\ Moved(r))
        => LET rec == reqs[r]
               h == sessions[rec.id].habitId
           IN  IF reqs'[r].pc # "idle"
               THEN /\ stats' = stats
                    /\ (rec.pc # "event" => events' = events)
               ELSE /\ last'.result = "ok"
                    /\ events' = events
                    /\ IF h = NoHabit
                       THEN rec.wrote = <<>> /\ stats' = stats
                       ELSE /\ rec.wrote =
                                 <<[habitId |-> h, date |-> rec.endTime,
                                    completed |-> TRUE, type |-> "pomodoro",
                                    duration |-> rec.duration]>>
                            /\ Cardinality(stats' \ stats) = 1
                            /\ Cardinality(stats \ stats') <= 1
                            /\ \A row \in stats' \ stats :
                                 LET was == CountersOf(stats, h, row.date)
                                 IN  /\ row.habitId = h
                                     /\ IsLocalDayOf(row.date, rec.endTime)
                                     /\ \A o \in stats \ stats' :
                                          o.habitId = h /\ o.date = row.date
                                     /\ row.totalPomodoros = was.totalPomodoros + 1
                                     /\ row.totalDuration =
                                          was.totalDuration + rec.duration
                                     /\ row.completedHabits = was.completedHabits
                                     /\ row.failedHabits = was.failedHabits
    ]_vars

\* a session with a habit has been completed after a minute: its event is in
\* the log and its row counts one pomodoro of 60 seconds
C6_Witness ==
  /\ last.kind = "complete" /\ last.result = "ok"
  /\ sessions[last.arg].habitId # NoHabit
  /\ \E i \in 1..Len(events) :
       /\ events[i].type = "pomodoro" /\ events[i].duration = SecondsPerMinute
       /\ events[i].habitId = sessions[last.arg].habitId
  /\ \E row \in stats :
       /\ row.habitId = sessions[last.arg].habitId
       /\ row.totalPomodoros = 1 /\ row.totalDuration = SecondsPerMinute

(* ------------------------------- C7 ----------------------------------- *)
\* C7: a successful complete sets status = completed, end = the handler's
\* reading of the clock, and duration = the whole seconds from start to end,
\* whatever the duration counter held.
C7_CompleteDuration ==
  [][ \A r \in Slots :
        /\ (Idle(r) /\ reqs'[r].kind = "complete") => reqs'[r].endTime = now
        /\ (reqs[r].kind = "complete" /\ reqs[r].pc = "update" /\ Moved(r))
           => LET was == sessions[reqs[r].id]
                  row == sessions'[reqs[r].id]
              IN  /\ row.status = "completed"
                  /\ row.end = reqs[r].endTime
                  /\ row.start = was.start
                  /\ row.duration * MsPerSecond <= row.end - row.start
                  /\ row.end - row.start < (row.duration + 1) * MsPerSecond
    ]_vars

\* the last answer was to a progress update; the complete that was running has
\* since written 60 seconds over the counter
C7_Witness ==
  \E r \in Slots :
    /\ reqs[r].kind = "complete" /\ reqs[r].pc = "event"
    /\ last = [kind |-> "patch", arg |-> reqs[r].id, result |-> "ok"]
    /\ sessions[reqs[r].id].status = "completed"
    /\ sessions[reqs[r].id].duration = SecondsPerMinute
    /\ sessions[reqs[r].id].duration \notin PatchInputs

(* ------------------------------- C8 ----------------------------------- *)
\* C8: no step of a start, recordProgress or cancel request, successful or
\* not, appends a calendar event or creates or changes a statistics row.
C8_OnlyCompleteHasSideEffects ==
  [][ (StepKinds \cap {"start", "patch", "cancel"} # {})
      => (events' = events /\ stats' = stats)
    ]_vars

\* a session was started, its counter updated, and it was cancelled: nothing
\* was logged or counted
C8_Witness ==
  /\ last.kind = "cancel" /\ last.result = "ok"
  /\ sessions[last.arg].status = "cancelled"
  /\ sessions[last.arg].duration \in PatchInputs
  /\ events = <<>> /\ stats = {}

(* ------------------------------- C9 ----------------------------------- *)
\* the completed flags of the habit events of (h, d), in creation order
HabitFlags(h, d) ==
  LET IsOne(e) == e.type = "habit" /\ e.habitId = h /\ e.date = d
      sel == SelectSeq(events, IsOne)
  IN  [i \in 1..Len(sel) |-> sel[i].completed]

\* how often the completion state, incomplete at first, flipped to v
FlipsTo(flags, v) ==
  Cardinality({i \in 1..Len(flags) :
                 flags[i] = v /\ (IF i = 1 THEN FALSE ELSE flags[i - 1]) # v})

\* C9: completedHabits counts only flips of the day's completion state from
\* incomplete to complete, failedHabits only flips from complete to
\* incomplete; a toggle or reset that leaves the state as it was changes
\* neither.
C9_CountsOnlyFlips ==
  \A row \in stats :
    /\ row.completedHabits <= FlipsTo(HabitFlags(row.habitId, row.date), TRUE)
    /\ row.failedHabits <= FlipsTo(HabitFlags(row.habitId, row.date), FALSE)

(* ------------------------------- C10 ---------------------------------- *)
RECURSIVE Sum(_, _)
Sum(f, S) ==
  IF S = {} THEN 0
  ELSE LET x == CHOOSE y \in S : TRUE IN f[x] + Sum(f, S \ {x})

\* the pomodoro events of habit h on the local day that begins at d
PomodoroEventsAt(h, d) ==
  {i \in 1..Len(events) :
     /\ events[i].type = "pomodoro" /\ events[i].habitId = h
     /\ IsLocalDayOf(d, events[i].date)}

\* the upsert calls for (h, d) that have been issued and not yet applied
PendingUpserts(h, d) ==
  {r \in Slots :
     /\ reqs[r].kind = "complete" /\ reqs[r].pc = "upsert"
     /\ reqs[r].habitId = h /\ IsLocalDayOf(d, reqs[r].endTime)}

LocalDays ==
  {d \in {row.date : row \in stats}
         \cup {events[i].date - ((events[i].date + tz) % MsPerDay) :
                 i \in 1..Len(events)} : (d + tz) % MsPerDay = 0}

\* C10: every upsert call {totalPomodoros: +1, totalDuration: +d} applied to a
\* key is counted once, in any interleaving and also when the row did not
\* exist: with N calls applied, totalPomodoros = N and totalDuration is the sum
\* of their d (60N for d = 60).  The calls made are the pomodoro events
\* logged; those not yet applied are the requests awaiting their upsert.
C10_NoLostIncrement ==
  \A h \in Habits, d \in LocalDays :
    LET c == CountersOf(stats, h, d)
        ev == PomodoroEventsAt(h, d)
        pend == PendingUpserts(h, d)
    IN  /\ Cardinality({row \in stats : row.habitId = h /\ row.date = d}) <= 1
        /\ c.totalPomodoros = Cardinality(ev) - Cardinality(pend)
        /\ c.totalDuration = Sum([i \in ev |-> events[i].duration], ev)
                             - Sum([r \in pend |-> reqs[r].duration], pend)

\* two upserts of +1, +60 have been applied to one key that had no row
C10_Witness ==
  \E row \in stats :
    /\ row.totalPomodoros = 2
    /\ row.totalDuration = 2 * SecondsPerMinute
    /\ Cardinality(PomodoroEventsAt(row.habitId, row.date)) = 2
    /\ PendingUpserts(row.habitId, row.date) = {}

(* ------------------------------- C11 ---------------------------------- *)
\* C11: a logical action that appends an event and upserts statistics is
\* all-or-nothing: when the request ends in failure, none of its writes is
\* visible, so it has appended no event (and changed no statistics row).
C11_AllOrNothing ==
  [][ \A r \in Slots :
        (reqs[r].kind \in {"habit", "complete"} /\ Moved(r)
           /\ reqs'[r].pc = "idle" /\ last'.result # "ok")
        => (reqs[r].wrote = <<>> /\ stats' = stats)
    ]_vars

(* ------------------------------- C12 ---------------------------------- *)
\* the local days on which the tables hold something
DaysInUse ==
  {LocalMidnight(row.date, tz) : row \in stats}
  \cup {LocalMidnight(events[i].date, tz) : i \in 1..Len(events)}

\* the statistics rows of habit h whose date lies on the local day that begins at d
RowsOn(h, d) == {row \in stats : row.habitId = h /\ IsLocalDayOf(d, row.date)}

HabitEventsAbout(h, day) ==
  {i \in 1..Len(events) :
     events[i].type = "habit" /\ events[i].habitId = h
     /\ events[i].date = DateOfDay(day)}

\* the one created last
Latest(ids) == CHOOSE i \in ids : \A j \in ids : j <= i

\* the completed flag of the latest habit event of (h, day), FALSE without one
LatestCompleted(h, day) ==
  LET ids == HabitEventsAbout(h, day)
  IN  ids # {} /\ events[Latest(ids)].completed

\* C13: queryDay(day) reports, for every known habit, the completed flag of
\* the latest habit event of (habit, day), latest by creation, and
\* completed = false for a habit without one; a day whose events are complete
\* then incomplete reads completed = false.
C13_QueryDayReadsLatest ==
  last.kind = "date"
  => \A h \in ViewHabits : last.result[h] = LatestCompleted(h, last.arg)

(* ------------------------------- C14 ---------------------------------- *)
\* the calendar day of the dashboard, as a day number
Today == ISODay(now + tz)

\* every habit is complete on the day: its latest habit event is complete
\* (every habit of the table applies on every day of the log)
DayComplete(day) == \A h \in ViewHabits : LatestCompleted(h, day)

\* the number of consecutive complete days that end at `day`
RECURSIVE CompleteDaysTo(_)
CompleteDaysTo(day) ==
  IF DayComplete(day) THEN 1 + CompleteDaysTo(day - 1) ELSE 0

\* C14: currentStreak(referenceDay) walks backward from referenceDay and
\* returns the number of consecutive days on which every applicable habit is
\* complete; it stops at the first day on which some applicable habit is not
\* complete, a habit with no event that day included.
C14_StreakOfCompleteDays ==
  last.kind = "streak" => last.result = CompleteDaysTo(Today)

AllEventsComplete(day) ==
  /\ \E h \in ViewHabits : HabitEventsAbout(h, day) # {}
  /\ \A h \in ViewHabits :
       \A i \in HabitEventsAbout(h, day) : events[i].completed

\* some habit has habit events about the day, none of them complete
SomeHabitMissed(day) ==
  \E h \in ViewHabits :
    /\ HabitEventsAbout(h, day) # {}
    /\ \A i \in HabitEventsAbout(h, day) : ~events[i].completed

StatusOf(h, day) ==
  IF HabitEventsAbout(h, day) = {} THEN "none"
  ELSE IF LatestCompleted(h, day) THEN "complete"
  ELSE "incomplete"

\* C16: weeklyWindow(referenceDay, habitId) returns exactly 7 entries, one for
\* each of the 7 days that end at referenceDay, and the status of an entry is
\* none iff no habit event exists for (habit, day), otherwise complete or
\* incomplete by the completed flag of the latest habit event of (habit, day).
C16_WeeklyWindow ==
  last.kind = "week"
  => /\ Len(last.result) = WeekBack + 1
     /\ \A k \in 1..(WeekBack + 1) :
          LET day == Today - (WeekBack + 1 - k)
          IN  /\ last.result[k].date = day
              /\ last.result[k].status = StatusOf(last.arg, day)

(* ------------------------------- C17 ---------------------------------- *)
\* the elements of a sequence
Range(seq) == {seq[k] : k \in 1..Len(seq)}

\* habit h is asked for, or no habit is
Asked(h, habitId) == h = NoHabit \/ habitId = h

\* C17: queryRange(startDay, endDay) returns every event and every statistics
\* row whose day lies in [startDay, endDay], both end days included, and
\* nothing outside; the month view includes the events recorded at any time
\* of the last day of the month.
C17_RangeReturnsAll ==
  /\ last.kind = "month"
     => /\ Range(last.result.events)
             = {i \in 1..Len(events) :
                  ISODay(events[i].date) \in last.arg[1]..last.arg[2]}
        /\ last.result.statistics
             = {row \in stats : ISODay(row.date) \in last.arg[1]..last.arg[2]}
  /\ last.kind = "stats"
     => /\ Range(last.result.events)
             = {i \in 1..Len(events) :
                  /\ ISODay(events[i].date) \in last.arg[1]..last.arg[2]
                  /\ Asked(last.arg[3], events[i].habitId)}
        /\ last.result.statistics
             = {row \in stats :
                  /\ ISODay(row.date) \in last.arg[1]..last.arg[2]
                  /\ Asked(last.arg[3], row.habitId)}

(* ------------------------------- C18 ---------------------------------- *)
\* the scenario: 3 items, requiredItems = 2, nothing checked at first
ScenarioOfThree ==
  LET h == CHOOSE x \in Habits : TRUE
      s1 == ToggledChecklist({}, 1)
      s2 == ToggledChecklist(s1, 2)
      s3 == ToggledChecklist(s2, 1)
      s4 == ToggledChecklist(s3, 3)
  IN  /\ Cardinality(Items) = 3 /\ RequiredItems(h) = 2
      /\ IsComplete(s2, h)
      /\ ~IsComplete(s3, h) /\ Cardinality(s3) = 1
      /\ IsComplete(s4, h) /\ Cardinality(s4) = 2

\* C18: a toggle of an item of the day's checklist inverts the completed flag
\* of exactly that item, leaves every other item as it was, and reports
\* isComplete = (number of completed items >= requiredItems); with 3 items and
\* requiredItems = 2, toggling items 1 and 2 on gives true, then item 1 off
\* gives false, then item 3 on gives true.
C18_ToggleInvertsOne ==
  [][ /\ ScenarioOfThree
      /\ \A r \in Slots :
           (Idle(r) /\ reqs'[r].kind = "habit" /\ reqs'[r].id \in Items)
           => LET h == reqs'[r].habitId
                  itemId == reqs'[r].id
              IN  /\ (itemId \in dayChecklist'[h]) = (itemId \notin dayChecklist[h])
                  /\ \A j \in Items \ {itemId} :
                       (j \in dayChecklist'[h]) = (j \in dayChecklist[h])
                  /\ dayChecklist'[h] \subseteq Items
                  /\ \A g \in Habits \ {h} : dayChecklist'[g] = dayChecklist[g]
                  /\ reqs'[r].completed
                       = (Cardinality(dayChecklist'[h]) >= RequiredItems(h))
    ]_vars

\* item 1 was toggled off, which reported false, then item 3 was toggled on,
\* which reported true: items 2 and 3 are checked
C18_Witness ==
  \E h \in Habits :
    /\ issued = 2
    /\ reqs[1].kind = "habit" /\ reqs[1].id = 1 /\ ~reqs[1].completed
    /\ reqs[2].kind = "habit" /\ reqs[2].id = 3 /\ reqs[2].completed
    /\ dayChecklist[h] = {2, 3}

(* ------------------------------- C19 ---------------------------------- *)
\* C19: for every day-state and every item of it, toggling the same item
\* twice returns the day-state, and therefore isComplete, to what it was.
C19_ToggleTwiceRestores ==
  \A h \in Habits, itemId \in Items :
    LET once == ToggledChecklist(dayChecklist[h], itemId)
        twice == ToggledChecklist(once, itemId)
    IN  /\ once # dayChecklist[h]
        /\ twice = dayChecklist[h]
        /\ IsComplete(twice, h) = IsComplete(dayChecklist[h], h)

\* item 1 was toggled off, which reported false, and toggled on again, which
\* reported true: items 1 and 2 are checked, as they were
C19_Witness ==
  \E h \in Habits :
    /\ issued = 2
    /\ reqs[1].kind = "habit" /\ reqs[1].id = 1 /\ ~reqs[1].completed
    /\ reqs[2].kind = "habit" /\ reqs[2].id = 1 /\ reqs[2].completed
    /\ dayChecklist[h] = {1, 2}

C21_OneRowPerDay ==
  \A a \in stats, b \in stats :
    (a.habitId = b.habitId /\ ISODay(a.date) = ISODay(b.date)) => a = b

(* ------------------------------- C22 ---------------------------------- *)
\* the rows of a table that do not refer to habit id
NotOf(tbl, id) ==
  LET Other(row) == row.habitId # id IN SelectSeq(tbl, Other)

\* C22: deleting a habit succeeds in every state, also when the habit has
\* sessions, events and statistics rows, and the deletion cascades to its
\* sessions and events: afterwards the habit is gone and its sessions and
\* events are no longer in their tables.
C22_DeleteCascades ==
  [][ (last'.kind = "delete" /\ last'.arg \in DOMAIN habits)
      => /\ last'.result = "ok"
         /\ last'.arg \notin DOMAIN habits'
         /\ sessions' = NotOf(sessions, last'.arg)
         /\ events' = NotOf(events, last'.arg)
    ]_vars

(* ------------------------------- C23 ---------------------------------- *)
\* C23: under any interleaving of concurrent complete and cancel requests for
\* one session, the session leaves status = active exactly once: a step of a
\* complete or cancel request for a session that has already reached
\* completed or cancelled changes neither its status, end and duration nor any
\* other session, appends no event and changes no statistics, so the session
\* has at most one pomodoro event and one statistics increment.
C23_LeavesActiveOnce ==
  [][ \A r \in Slots :
        (reqs[r].kind \in {"complete", "cancel"} /\ Moved(r)
           /\ sessions[reqs[r].id].status # "active")
        => (sessions' = sessions /\ events' = events /\ stats' = stats)
    ]_vars

(* ------------------------------- C26 ---------------------------------- *)
\* C26: a successful start(habitId?, targetMinutes) returns and stores a
\* session with status = active, targetDuration = targetMinutes x 60 seconds
\* and duration = 0.
C26_StartStoresZeroDuration ==
  [][ \A r \in Slots :
        (reqs[r].kind = "start" /\ reqs[r].pc = "create" /\ Moved(r))
        => LET row == sessions'[Len(sessions')]
           IN  /\ last'.result = "ok"
               /\ Len(sessions') = Len(sessions) + 1
               /\ row.habitId = reqs[r].habitId
               /\ row.status = "active"
               /\ row.targetDuration = reqs[r].minutes * SecondsPerMinute
               /\ row.duration = 0
    ]_vars

(* ------------------------------- C24 ---------------------------------- *)
\* C24: when the selected day is read back through queryDay with no request
\* in flight, every habit reads with the checklist state that the latest
\* toggle or reset of that day wrote, which is the state of its card; a habit
\* never touched on that day reads as an unchecked copy of its template.
C24_ReadBackLatestToggle ==
  [][ (last'.kind = "day" /\ ReadOnly /\ NoSlotBusy)
      => \A h \in Habits : last'.result[h] = dayChecklist[h]
    ]_vars

(* ------------------------------- C25 ---------------------------------- *)
\* C25: day-to-day completion never changes the habit template: no step of a
\* toggle or a reset, nor of the requests they send, changes the stored
\* checklist, name or requiredItems of a habit, and none changes what is
\* stored about another day: the events are kept, those appended are about
\* the selected day, and so are the statistics rows that change.
C25_TemplateUntouched ==
  [][ /\ habits' = habits
      /\ Len(events') >= Len(events)
      /\ SubSeq(events', 1, Len(events)) = events
      /\ \A i \in (Len(events) + 1)..Len(events') :
           events'[i].date = DateOfISODay(selectedDate)
      /\ \A row \in stats :
           row.date # DateOfISODay(selectedDate) => row \in stats'
      /\ \A row \in stats' \ stats : row.date = DateOfISODay(selectedDate)
    ]_vars


(* ---------------- C27: a late request of the timer ---------------- *)
\* the session of a request of the panel has left the state active
Terminal(msg) ==
  /\ msg.id \in 1..Len(sessions)
  /\ sessions[msg.id].status # "active"

\* C27: a recordProgress or complete request that the timer of the panel
\* has sent and that reaches a session which is completed or cancelled
\* changes no table and is answered without a failure.
C27_LateTimerRequestIsNoOp ==
  [][\A msg \in outbox \ outbox' :
       (msg.by = "timer" /\ Terminal(msg))
         => /\ sessions' = sessions
            /\ events' = events
            /\ stats' = stats
            /\ last'.result = "ok"]_vars

(* ---------------- C28: what a tick may send ---------------- *)
\* a complete or a cancel request for session id has been sent
Closing(id) ==
  \/ \E msg \in outbox : msg.id = id /\ msg.kind \in {"complete", "cancel"}
  \/ \E r \in Slots : reqs[r].id = id /\ reqs[r].kind \in {"complete", "cancel"}
  \/ id \in succeeded

\* C28: once a complete or a cancel request has been sent for a session, be
\* it by the timer or by a click, no tick sends a complete or a
\* recordProgress request for that session.
C28_TimerSendsNothingAfterClosing ==
  [][\A msg \in outbox' \ outbox :
       msg.by = "timer" => ~Closing(msg.id)]_vars

(* ---------------- C29: an active session ends ---------------- *)
\* C29: a session that is active and whose timer runs in the panel is
\* eventually completed or cancelled, when the timer keeps ticking and the
\* requests are delivered and served.
C29_ActiveSessionEnds ==
  (/\ panel.activeSession # 0
   /\ panel.isRunning
   /\ sessions[panel.activeSession].status = "active")
    ~> (ActiveSessions(sessions) = {})

\* the countdown has reached zero, and the request of the timer has
\* completed the session
C29_Witness ==
  /\ sessions[1].status = "completed"
  /\ panel.timer = 0
  /\ ~panel.isRunning
  /\ last.kind = "complete" /\ last.result = "ok"
  /\ ~\E kind \in {"complete", "cancel"} : IsPending(kind)


(* ---------------- C30: the cycle of the local timer ---------------- *)
\* the focus sessions in the list of completed sessions
FocusCompleted(list) == Cardinality({i \in DOMAIN list : list[i] = "focus"})

\* C30: every completion appends exactly one entry, of the session that has
\* completed, to completedSessions and stops the timer; the session that
\* follows a focus session is a long break iff the number of focus sessions
\* completed, this one included, is a multiple of 4, and a short break
\* otherwise; the session that follows a break is focus; and the session
\* changes in no other step.
C30_FixedCycle ==
  [][LET p == pomodoro
         q == pomodoro'
         done == p.completedSessions
     IN  /\ q.completedSessions # done
              => /\ q.completedSessions = Append(done, p.currentSession)
                 /\ ~q.isRunning
         /\ Len(q.timeouts) < Len(p.timeouts)
              => /\ done # <<>> /\ done[Len(done)] = p.currentSession
                 /\ q.currentSession =
                      IF p.currentSession # "focus" THEN "focus"
                      ELSE IF FocusCompleted(done)
                                % SESSIONS_BEFORE_LONG_BREAK = 0
                           THEN "long-break"
                           ELSE "short-break"
         /\ Len(q.timeouts) >= Len(p.timeouts)
              => q.currentSession = p.currentSession]_vars

\* four focus sessions and the breaks between them have completed, the long
\* break after the fourth has completed as well, and the timer is at focus
C30_Witness ==
  /\ Len(pomodoro.completedSessions) = 2 * SESSIONS_BEFORE_LONG_BREAK
  /\ pomodoro.completedSessions[2 * SESSIONS_BEFORE_LONG_BREAK] = "long-break"
  /\ FocusCompleted(pomodoro.completedSessions) = SESSIONS_BEFORE_LONG_BREAK
  /\ pomodoro.timeouts = <<>>
  /\ pomodoro.currentSession = "focus"
  /\ ~pomodoro.isRunning

=============================================================================
